---- MODULE Spec2Model ----
(***************************************************************************)
(* Model of the among-us-bot gateway event loop (main) and of the command  *)
(* tasks it spawns (process_command), src/src/main.rs.                     *)
(*                                                                         *)
(* The Context type (mod context) is not part of the available sources;    *)
(* its operations are modelled from the specification's SessionManager /  *)
(* Authorization / ControlMessageBinding / VoiceMuteCoordinator contracts  *)
(* and from the way main.rs uses their results.  Every Context operation   *)
(* is one atomic step (it serialises on the session lock); every .await    *)
(* between two operations is a point where other tasks may run.            *)
(***************************************************************************)
EXTENDS Integers, Sequences, FiniteSets, TLC

VARIABLES session, muted, voice, posted, tasks, loop, shutdown,
          ncmd, nreact, holder

vars ==
    <<session, muted, voice, posted, tasks, loop, shutdown, ncmd, nreact,
      holder>>

---------------------------------------------------------------------------
(* Bounds *)

\* number of command tasks that may be in flight at once
MaxTasks == 2
\* number of control messages the bot may post in one run
MaxMsgs == 2
\* Spec: command messages and user reactions received in one run
MaxCmds == 3
MaxReacts == 1
\* SpecMeeting: the same, for runs without "~dead", with voice changes
MeetingCmds == 2
MeetingReacts == 2

---------------------------------------------------------------------------
(* Identities and symbols *)

Users == {"A", "B", "O"}
\* app_info owner / team members
owners == {"O"}
\* UserId(app_info.id.0)
current_user == "bot"
\* members in a voice channel when the bot starts
VoiceAtStart == {"A"}
\* members whose voice state changes during the run
VoiceUsers == {"B"}

EMER_EMOJI == "emer"
DEAD_EMOJI == "dead"
Emojis == {EMER_EMOJI, DEAD_EMOJI, "other"}

Slots == 1..MaxTasks

NoArg == <<>>
\* first argument of "~new": absent, or one token given as its characters
NewArgs == {NoArg, <<"0">>, <<"2">>, <<"x">>}
\* first argument of "~dead": absent, a user mention, or plain text
Mention(u) == <<"<@", u, ">">>
DeadArgs == {NoArg, <<"B">>, Mention("B")}

---------------------------------------------------------------------------
(* Pure functions of process_command *)

Digits == {"0", "1", "2", "3", "4", "5", "6", "7", "8", "9"}

DigitVal(c) ==
    CASE c = "0" -> 0 [] c = "1" -> 1 [] c = "2" -> 2 [] c = "3" -> 3
      [] c = "4" -> 4 [] c = "5" -> 5 [] c = "6" -> 6 [] c = "7" -> 7
      [] c = "8" -> 8 [] c = "9" -> 9

RECURSIVE DigitsVal(_)
\* value of a non-empty string of decimal digits, most significant first
DigitsVal(ds) ==
    IF Len(ds) = 1 THEN DigitVal(ds[1])
    ELSE 10 * DigitsVal(SubSeq(ds, 1, Len(ds) - 1)) + DigitVal(ds[Len(ds)])

\* s.parse::<u64>().ok(): an optional "+", then one or more digits; the tokens
\* of NewArgs are far below 2^64, where the parse would overflow to None
ParseU64(tok) ==
    LET ds == IF Len(tok) > 0 /\ tok[1] = "+" THEN Tail(tok) ELSE tok
    IN  IF Len(ds) > 0 /\ \A i \in 1..Len(ds) : ds[i] \in Digits
        THEN [ok |-> TRUE, val |-> DigitsVal(ds)]
        ELSE [ok |-> FALSE, val |-> 0]

\* faulty variant of Duration: the `time == 0` arm is missing
DurationNoZeroArm(arg) ==
    LET p == IF arg = NoArg THEN [ok |-> FALSE, val |-> 0] ELSE ParseU64(arg)
    IN  IF p.ok THEN [some |-> TRUE, secs |-> p.val]
        ELSE [some |-> TRUE, secs |-> 5]

\* the `duration` of "~new": None, or Some(seconds)
Duration(arg) ==
    LET p == IF arg = NoArg THEN [ok |-> FALSE, val |-> 0] ELSE ParseU64(arg)
    IN  IF p.ok /\ p.val = 0 THEN [some |-> FALSE, secs |-> 0]
        ELSE IF p.ok THEN [some |-> TRUE, secs |-> p.val]
        ELSE [some |-> TRUE, secs |-> 5]

\* arguments.next().map(UserId::parse): Some(Ok(target)) or anything else
ParseMention(tok) ==
    IF Len(tok) = 3 /\ tok[1] = "<@" /\ tok[3] = ">"
    THEN [ok |-> TRUE, target |-> tok[2]]
    ELSE [ok |-> FALSE, target |-> "-"]

---------------------------------------------------------------------------
(* Context: the shared session and the voice-mute coordinator *)

NoSession ==
    [active |-> FALSE, initiator |-> "-", ctrl |-> 0, dead |-> {},
     meeting |-> FALSE]

\* start: SessionAlreadyActive leaves the session as it is
start_game(s, ctrl_msg, owner) ==
    IF s.active THEN s
    ELSE [active |-> TRUE, initiator |-> owner, ctrl |-> ctrl_msg,
          dead |-> {}, meeting |-> FALSE]

is_game_in_progress(s) == s.active

is_in_control(s, user) ==
    (s.active /\ user = s.initiator) \/ user \in owners

is_reacting_to_control(s, msg) == s.active /\ msg = s.ctrl

\* markDead: a no-op without a session
make_dead(s, user) ==
    IF s.active THEN [s EXCEPT !.dead = @ \cup {user}] ELSE s

\* broadcast() is Some exactly while a game runs
broadcast(s) == s.active

\* muteAll: every member currently in voice is server-muted
muteAll(m, v) == m \cup v

\* unmuteAll: every member this coordinator muted is unmuted
unmuteAll(m) == {}

\* end: NoActiveSession without a session; otherwise every muted member is
\* unmuted and the session is cleared
end_game(s, m) ==
    IF s.active
    THEN [ok |-> TRUE, session |-> NoSession, muted |-> unmuteAll(m)]
    ELSE [ok |-> FALSE, session |-> s, muted |-> m]

\* callEmergencyMeeting: NoActiveSession without a session; otherwise
\* meetingActive becomes true and muteAll runs
emergency_meeting(s, m, v) ==
    IF s.active
    THEN [ok |-> TRUE, session |-> [s EXCEPT !.meeting = TRUE],
          muted |-> muteAll(m, v)]
    ELSE [ok |-> FALSE, session |-> s, muted |-> m]

\* mutePlayers: muteAll for the current voice membership, unconditionally and
\* whatever meetingActive is
mute_players(s, m, v) ==
    [ok |-> TRUE, session |-> s, muted |-> muteAll(m, v)]

---------------------------------------------------------------------------
(* State *)

\* the session lock: 0 when free, else the slot of the task that holds it.
\* Every Context operation takes the lock and releases it before it returns,
\* so an operation is one step that needs the lock free and leaves it free.
Free == holder = 0

IdleTask ==
    [kind |-> "idle", author |-> "-", arg |-> NoArg, pc |-> "idle",
     ctrl |-> 0, started |-> FALSE, auth |-> FALSE, reply |-> "none",
     delay |-> 0]

\* process_command has returned Ok (done) or Err (failed), or it panicked
Ended == {"done", "failed", "panicked"}

IdleLoop == [pc |-> "idle", user |-> "-", msg |-> 0, emoji |-> "-"]

\* the process lives until main returns: Ok after the event stream ended,
\* Err when a `?` of the event loop propagated an error
Running == loop.pc \notin {"stopped", "crashed"}

Init ==
    /\ session = NoSession
    /\ muted = {}
    /\ voice = VoiceAtStart
    /\ posted = 0
    /\ tasks = [t \in Slots |-> IdleTask]
    /\ loop = IdleLoop
    /\ shutdown = FALSE
    /\ ncmd = 0
    /\ nreact = 0
    /\ holder = 0

\* process_command of task t ends; only the outcome and the reply it has
\* sent remain
Finish(t, end, reply) ==
    tasks' = [tasks EXCEPT ![t] =
                [IdleTask EXCEPT !.kind = "ended", !.pc = end,
                                 !.reply = reply]]

---------------------------------------------------------------------------
(* Gateway event loop: events taken from the stream *)

Commands == {"new", "end", "dead", "stop"}

\* users who start games
NewAuthors == {"A", "B"}

AuthorsOf(kind) == IF kind = "new" THEN NewAuthors ELSE Users

ArgsOf(kind) ==
    CASE kind = "new" -> NewArgs
      [] kind = "dead" -> DeadArgs
      [] OTHER -> {NoArg}

FreeSlots == {t \in Slots : tasks[t].kind = "idle"}

\* "~new" tasks that have not posted their control message yet
PendingPosts == Cardinality({t \in Slots : tasks[t].pc = "new_post"})

\* accounts with message.author.bot set
Bots == {current_user}

\* Event::MessageCreate(message) if !message.author.bot: process_command is
\* spawned for a recognised command.  Its first await, delete_message of the
\* command's own message, touches no shared state and is taken with the spawn.
MessageCreate(author, kind, arg) ==
    /\ loop.pc = "idle"
    /\ author \notin Bots
    /\ FreeSlots # {}
    /\ kind = "new" => posted + PendingPosts < MaxMsgs
    /\ LET t == CHOOSE x \in FreeSlots : \A y \in FreeSlots : x <= y
       IN  tasks' = [tasks EXCEPT ![t] =
                [IdleTask EXCEPT
                    !.kind = kind, !.author = author, !.arg = arg,
                    !.pc = CASE kind = "new" -> "new_post"
                             [] kind = "end" -> "end_check"
                             [] kind = "dead" -> "dead_check"
                             [] kind = "stop" -> "stop_check"]]
    /\ ncmd' = ncmd + 1
    /\ UNCHANGED <<session, muted, voice, posted, loop, shutdown, nreact, holder>>

\* the same, when the delete_message request fails: `?` returns the error
MessageCreateDeleteFails ==
    /\ loop.pc = "idle"
    /\ FreeSlots # {}
    /\ LET t == CHOOSE x \in FreeSlots : \A y \in FreeSlots : x <= y
       IN  tasks' = [tasks EXCEPT ![t] =
                [IdleTask EXCEPT !.kind = "ended", !.pc = "failed"]]
    /\ ncmd' = ncmd + 1
    /\ UNCHANGED <<session, muted, voice, posted, loop, shutdown,
                   nreact, holder>>

\* a MessageCreate whose author is a bot account falls through to `_ => {}`;
\* text that is no command makes process_command return Ok at once
IgnoredMessageCreate ==
    /\ loop.pc = "idle"
    /\ UNCHANGED vars

\* context.cache.update(&event) for a VoiceStateUpdate: u joins or leaves
VoiceStateUpdate(u) ==
    /\ loop.pc = "idle"
    /\ voice' = IF u \in voice THEN voice \ {u} ELSE voice \cup {u}
    /\ UNCHANGED <<session, muted, posted, tasks, loop, shutdown, ncmd, nreact, holder>>

\* a reaction event of the bot's own identity fails the arm's guard
OwnReaction ==
    /\ loop.pc = "idle"
    /\ UNCHANGED vars

\* faulty variant of ReactionAdd: the guard on reaction.user_id is missing
ReactionAddUnfiltered(user, msg, emoji) ==
    /\ loop.pc = "idle"
    /\ loop' = [pc |-> "add_ctrl", user |-> user, msg |-> msg,
                emoji |-> emoji]
    /\ nreact' = nreact + 1
    /\ UNCHANGED <<session, muted, voice, posted, tasks, shutdown, ncmd, holder>>

\* Event::ReactionAdd(reaction) if reaction.user_id != current_user
ReactionAdd(user, msg, emoji) ==
    /\ loop.pc = "idle"
    /\ user # current_user
    /\ loop' = [pc |-> "add_ctrl", user |-> user, msg |-> msg,
                emoji |-> emoji]
    /\ nreact' = nreact + 1
    /\ UNCHANGED <<session, muted, voice, posted, tasks, shutdown, ncmd, holder>>

\* Event::ReactionRemove(reaction) if reaction.user_id != current_user; the
\* emoji is matched before the context is consulted
ReactionRemove(user, msg, emoji) ==
    /\ loop.pc = "idle"
    /\ user # current_user
    /\ emoji = EMER_EMOJI
    /\ loop' = [pc |-> "rem_ctrl", user |-> user, msg |-> msg,
                emoji |-> emoji]
    /\ nreact' = nreact + 1
    /\ UNCHANGED <<session, muted, voice, posted, tasks, shutdown, ncmd, holder>>

\* a ReactionRemove of any other emoji fails the `matches!` and is dropped
OtherReactionRemove ==
    /\ loop.pc = "idle"
    /\ UNCHANGED vars

\* events.next() yields None once the shard was shut down: main returns Ok
LoopExit ==
    /\ loop.pc = "idle"
    /\ shutdown
    /\ loop' = [loop EXCEPT !.pc = "stopped"]
    /\ UNCHANGED <<session, muted, voice, posted, tasks, shutdown, ncmd, nreact, holder>>

---------------------------------------------------------------------------
(* Gateway event loop: reactions are handled inline, one await at a time *)

\* faulty variant of AddIsReactingToControl: the message of the reaction is
\* not compared with the control message
AddIsReactingAnyMessage ==
    /\ Free
    /\ loop.pc = "add_ctrl"
    /\ loop' = IF session.active
               THEN CASE loop.emoji = EMER_EMOJI ->
                             [loop EXCEPT !.pc = "add_auth"]
                      [] loop.emoji = DEAD_EMOJI ->
                             [loop EXCEPT !.pc = "add_dead"]
                      [] OTHER -> IdleLoop
               ELSE IdleLoop
    /\ UNCHANGED <<session, muted, voice, posted, tasks, shutdown, ncmd,
                   nreact, holder>>

\* ReactionAdd: if context.is_reacting_to_control(&reaction).await, then
\* match reaction.emoji
AddIsReactingToControl ==
    /\ Free
    /\ loop.pc = "add_ctrl"
    /\ loop' = IF is_reacting_to_control(session, loop.msg)
               THEN CASE loop.emoji = EMER_EMOJI ->
                             [loop EXCEPT !.pc = "add_auth"]
                      [] loop.emoji = DEAD_EMOJI ->
                             [loop EXCEPT !.pc = "add_dead"]
                      [] OTHER -> IdleLoop
               ELSE IdleLoop
    /\ UNCHANGED <<session, muted, voice, posted, tasks, shutdown, ncmd,
                   nreact, holder>>

\* faulty variant of AddIsInControl: the emergency meeting is not gated
AddSkipsIsInControl ==
    /\ Free
    /\ loop.pc = "add_auth"
    /\ loop' = [loop EXCEPT !.pc = "add_emer"]
    /\ UNCHANGED <<session, muted, voice, posted, tasks, shutdown, ncmd, nreact, holder>>

\* EMER_EMOJI: if context.is_in_control(&reaction.user_id).await
AddIsInControl ==
    /\ Free
    /\ loop.pc = "add_auth"
    /\ loop' = IF is_in_control(session, loop.user)
               THEN [loop EXCEPT !.pc = "add_emer"]
               ELSE IdleLoop
    /\ UNCHANGED <<session, muted, voice, posted, tasks, shutdown, ncmd, nreact, holder>>

\* faulty variant of AddEmergencyMeeting: a second emergency reaction while a
\* meeting is on calls the meeting off
AddEmergencyMeetingToggles ==
    /\ Free
    /\ loop.pc = "add_emer"
    /\ LET r == IF session.active /\ session.meeting
                THEN [ok |-> TRUE,
                      session |-> [session EXCEPT !.meeting = FALSE],
                      muted |-> unmuteAll(muted)]
                ELSE emergency_meeting(session, muted, voice)
       IN  /\ session' = r.session
           /\ muted' = r.muted
           /\ loop' = IF r.ok THEN IdleLoop
                      ELSE [IdleLoop EXCEPT !.pc = "crashed"]
    /\ UNCHANGED <<voice, posted, tasks, shutdown, ncmd,
                   nreact, holder>>

\* context.emergency_meeting().await?
AddEmergencyMeeting ==
    /\ Free
    /\ loop.pc = "add_emer"
    /\ LET r == emergency_meeting(session, muted, voice)
       IN  /\ session' = r.session
           /\ muted' = r.muted
           /\ loop' = IF r.ok THEN IdleLoop
                      ELSE [IdleLoop EXCEPT !.pc = "crashed"]
    /\ UNCHANGED <<voice, posted, tasks, shutdown, ncmd,
                   nreact, holder>>

\* faulty variant of AddMakeDead: the reacting user replaces the dead members
AddMakeDeadOverwrites ==
    /\ Free
    /\ loop.pc = "add_dead"
    /\ session' = IF session.active
                  THEN [session EXCEPT !.dead = {loop.user}]
                  ELSE session
    /\ loop' = IdleLoop
    /\ UNCHANGED <<muted, voice, posted, tasks, shutdown,
                   ncmd, nreact, holder>>

\* DEAD_EMOJI: context.make_dead(&reaction.user_id).await
AddMakeDead ==
    /\ Free
    /\ loop.pc = "add_dead"
    /\ session' = make_dead(session, loop.user)
    /\ loop' = IdleLoop
    /\ UNCHANGED <<muted, voice, posted, tasks, shutdown,
                   ncmd, nreact, holder>>

\* faulty variant of RemIsReactingToControl: the removal is not checked
\* against the control message
RemIsReactingAnyMessage ==
    /\ Free
    /\ loop.pc = "rem_ctrl"
    /\ loop' = [loop EXCEPT !.pc = "rem_auth"]
    /\ UNCHANGED <<session, muted, voice, posted, tasks, shutdown, ncmd,
                   nreact, holder>>

\* ReactionRemove: && context.is_reacting_to_control(&reaction).await
RemIsReactingToControl ==
    /\ Free
    /\ loop.pc = "rem_ctrl"
    /\ loop' = IF is_reacting_to_control(session, loop.msg)
               THEN [loop EXCEPT !.pc = "rem_auth"]
               ELSE IdleLoop
    /\ UNCHANGED <<session, muted, voice, posted, tasks, shutdown, ncmd,
                   nreact, holder>>

\* && context.is_in_control(&reaction.user_id).await
RemIsInControl ==
    /\ Free
    /\ loop.pc = "rem_auth"
    /\ loop' = IF is_in_control(session, loop.user)
               THEN [loop EXCEPT !.pc = "rem_mute"]
               ELSE IdleLoop
    /\ UNCHANGED <<session, muted, voice, posted, tasks, shutdown, ncmd, nreact, holder>>

\* context.mute_players().await?
RemMutePlayers ==
    /\ Free
    /\ loop.pc = "rem_mute"
    /\ LET r == mute_players(session, muted, voice)
       IN  /\ session' = r.session
           /\ muted' = r.muted
           /\ loop' = IF r.ok THEN IdleLoop
                      ELSE [IdleLoop EXCEPT !.pc = "crashed"]
    /\ UNCHANGED <<voice, posted, tasks, shutdown, ncmd,
                   nreact, holder>>

---------------------------------------------------------------------------
(* process_command: one spawned task per chat message *)

\* task t moves on
Goto(t, task) == tasks' = [tasks EXCEPT ![t] = task]

\* the spawned future completes, logging an Err with error!; the task is gone
TaskReturn(t) ==
    /\ Running
    /\ tasks[t].pc \in Ended
    /\ tasks' = [tasks EXCEPT ![t] = IdleTask]
    /\ UNCHANGED <<session, muted, voice, posted, loop, shutdown,
                   ncmd, nreact, holder>>

\* faulty variant of HttpFailure: the error of create_message is swallowed
\* and the "~new" task goes on with no control message
HttpFailureIgnored(t) ==
    /\ Running
    /\ \/ tasks[t].pc \in {"new_post", "dead_delreply"}
       \/ tasks[t].pc = "dead_bcast"
          /\ (tasks[t].auth => broadcast(session))
    /\ IF tasks[t].pc = "new_post"
       THEN Goto(t, [tasks[t] EXCEPT !.pc = "new_start"])
       ELSE Finish(t, "failed", tasks[t].reply)
    /\ UNCHANGED <<session, muted, voice, posted, loop, shutdown,
                   ncmd, nreact, holder>>

\* an outbound HTTP request of the task returns Err and `?` ends the task; a
\* control message that was not posted is recorded as "unposted"
HttpFailure(t) ==
    /\ Running
    /\ \/ tasks[t].pc \in {"new_post", "dead_delreply"}
       \/ tasks[t].pc = "dead_bcast"
          /\ (tasks[t].auth => broadcast(session))
    /\ Finish(t, "failed", IF tasks[t].pc = "new_post" THEN "unposted"
                           ELSE tasks[t].reply)
    /\ UNCHANGED <<session, muted, voice, posted, loop, shutdown,
                   ncmd, nreact, holder>>

\* "new": create_message posts the control message, then the task that
\* attaches the two reactions is spawned
NewCreateMessage(t) ==
    /\ Running
    /\ tasks[t].pc = "new_post"
    /\ posted < MaxMsgs
    /\ posted' = posted + 1
    /\ Goto(t, [tasks[t] EXCEPT !.pc = "new_start", !.ctrl = posted + 1])
    /\ UNCHANGED <<session, muted, voice, loop, shutdown, ncmd, nreact, holder>>

\* faulty variant of NewStartGame: a running session is replaced
NewStartGameRestart(t) ==
    /\ Free
    /\ Running
    /\ tasks[t].pc = "new_start"
    /\ session' = start_game(NoSession, tasks[t].ctrl, tasks[t].author)
    /\ LET d == Duration(tasks[t].arg)
       IN  Goto(t, [IdleTask EXCEPT
                      !.kind = "new", !.started = ~session.active,
                      !.pc = IF d.some THEN "new_sleep" ELSE "new_mute",
                      !.delay = d.secs])
    /\ UNCHANGED <<muted, voice, posted, loop, shutdown, ncmd, nreact, holder>>

\* faulty variant of NewStartGame: the session lock taken for start_game is
\* still held when the task goes to sleep
NewStartGameKeepsLock(t) ==
    /\ Free
    /\ Running
    /\ tasks[t].pc = "new_start"
    /\ session' = start_game(session, tasks[t].ctrl, tasks[t].author)
    /\ holder' = t
    /\ LET d == Duration(tasks[t].arg)
       IN  Goto(t, [IdleTask EXCEPT
                      !.kind = "new", !.started = ~session.active,
                      !.pc = IF d.some THEN "new_sleep" ELSE "new_mute",
                      !.delay = d.secs])
    /\ UNCHANGED <<muted, voice, posted, loop, shutdown, ncmd, nreact>>

\* ctx.start_game(&ctrl_msg, msg.author.id, guild).await; then the duration
\* is computed from the first argument
NewStartGame(t) ==
    /\ Free
    /\ Running
    /\ tasks[t].pc = "new_start"
    /\ session' = start_game(session, tasks[t].ctrl, tasks[t].author)
    /\ LET d == Duration(tasks[t].arg)
       IN  Goto(t, [IdleTask EXCEPT
                      !.kind = "new", !.started = ~session.active,
                      !.pc = IF d.some THEN "new_sleep" ELSE "new_mute",
                      !.delay = d.secs])
    /\ UNCHANGED <<muted, voice, posted, loop, shutdown, ncmd, nreact, holder>>

\* sleep(duration).await returns
NewSleep(t) ==
    /\ Running
    /\ tasks[t].pc = "new_sleep"
    /\ Goto(t, [tasks[t] EXCEPT !.pc = "new_mute"])
    /\ UNCHANGED <<session, muted, voice, posted, loop, shutdown,
                   ncmd, nreact, holder>>

\* ctx.mute_players().await?
NewMutePlayers(t) ==
    /\ Free
    /\ Running
    /\ tasks[t].pc = "new_mute"
    /\ LET r == mute_players(session, muted, voice)
       IN  /\ session' = r.session
           /\ muted' = r.muted
           /\ IF r.ok
              THEN Goto(t, [tasks[t] EXCEPT !.pc = "new_join", !.delay = 0])
              ELSE Finish(t, "failed", "none")
    /\ UNCHANGED <<voice, posted, loop, shutdown, ncmd, nreact, holder>>

\* res.await??: the task spawned after create_message attaches EMER_EMOJI,
\* then DEAD_EMOJI, with create_reaction(..).await?; it shares no state with
\* the other tasks, and its Result is what the join returns
NewJoinReactions(t) ==
    /\ Running
    /\ tasks[t].pc = "new_join"
    /\ \E res \in {"done", "failed"} : Finish(t, res, "none")
    /\ UNCHANGED <<session, muted, voice, posted, loop, shutdown,
                   ncmd, nreact, holder>>

\* "end": if ctx.is_in_control(&msg.author.id).await
EndIsInControl(t) ==
    /\ Free
    /\ Running
    /\ tasks[t].pc = "end_check"
    /\ IF is_in_control(session, tasks[t].author)
       THEN Goto(t, [tasks[t] EXCEPT !.auth = TRUE, !.pc = "end_game"])
       ELSE Finish(t, "done", "none")
    /\ UNCHANGED <<session, muted, voice, posted, loop, shutdown,
                   ncmd, nreact, holder>>

\* ctx.end_game().await?
EndEndGame(t) ==
    /\ Free
    /\ Running
    /\ tasks[t].pc = "end_game"
    /\ LET r == end_game(session, muted)
       IN  /\ session' = r.session
           /\ muted' = r.muted
           /\ Finish(t, IF r.ok THEN "done" ELSE "failed", "none")
    /\ UNCHANGED <<voice, posted, loop, shutdown, ncmd, nreact, holder>>

\* "dead": if ctx.is_in_control(&msg.author.id).await
DeadIsInControl(t) ==
    /\ Free
    /\ Running
    /\ tasks[t].pc = "dead_check"
    /\ Goto(t, [tasks[t] EXCEPT
                  !.auth = is_in_control(session, tasks[t].author),
                  !.pc = "dead_bcast"])
    /\ UNCHANGED <<session, muted, voice, posted, loop, shutdown,
                   ncmd, nreact, holder>>

\* faulty variant of DeadReply: the result of is_in_control is not consulted
DeadReplyUnchecked(t) ==
    /\ Free
    /\ Running
    /\ tasks[t].pc = "dead_bcast"
    /\ LET b == broadcast(session)
           p == ParseMention(tasks[t].arg)
       IN  IF ~b THEN Finish(t, "panicked", "none")
           ELSE IF tasks[t].arg # NoArg /\ p.ok
                THEN Goto(t, [tasks[t] EXCEPT !.pc = "dead_make",
                                              !.reply = "deadifying"])
                ELSE Finish(t, "done", "mention")
    /\ UNCHANGED <<session, muted, voice, posted, loop, shutdown,
                   ncmd, nreact, holder>>

\* the reply of "dead": ctx.broadcast().await.unwrap() for a controller (a
\* panic when it is None), `if let Some(broadcast)` with the create_message
\* fallback for anyone else; the reply is then sent
DeadReply(t) ==
    /\ Free
    /\ Running
    /\ tasks[t].pc = "dead_bcast"
    /\ LET b == broadcast(session)
           p == ParseMention(tasks[t].arg)
       IN  IF tasks[t].auth
           THEN IF ~b THEN Finish(t, "panicked", "none")
                ELSE IF tasks[t].arg # NoArg /\ p.ok
                     THEN Goto(t, [tasks[t] EXCEPT !.pc = "dead_make",
                                                   !.reply = "deadifying"])
                     ELSE Finish(t, "done", "mention")
           ELSE Finish(t, "done", IF b THEN "permission" ELSE "nogame")
    /\ UNCHANGED <<session, muted, voice, posted, loop, shutdown,
                   ncmd, nreact, holder>>

\* ctx.make_dead(&target).await
DeadMakeDead(t) ==
    /\ Free
    /\ Running
    /\ tasks[t].pc = "dead_make"
    /\ session' = make_dead(session, ParseMention(tasks[t].arg).target)
    /\ Goto(t, [IdleTask EXCEPT !.kind = "dead", !.pc = "dead_sleep",
                                !.reply = tasks[t].reply, !.delay = 5])
    /\ UNCHANGED <<muted, voice, posted, loop, shutdown, ncmd, nreact, holder>>

\* sleep(Duration::from_secs(5)).await returns
DeadSleep(t) ==
    /\ Running
    /\ tasks[t].pc = "dead_sleep"
    /\ Goto(t, [tasks[t] EXCEPT !.pc = "dead_delreply", !.delay = 0])
    /\ UNCHANGED <<session, muted, voice, posted, loop, shutdown,
                   ncmd, nreact, holder>>

\* delete_message(reply.channel_id, reply.id).await?
DeadDeleteReply(t) ==
    /\ Running
    /\ tasks[t].pc = "dead_delreply"
    /\ Finish(t, "done", tasks[t].reply)
    /\ UNCHANGED <<session, muted, voice, posted, loop, shutdown,
                   ncmd, nreact, holder>>

\* "stop": if ctx.is_in_control(&msg.author.id).await
StopIsInControl(t) ==
    /\ Free
    /\ Running
    /\ tasks[t].pc = "stop_check"
    /\ IF is_in_control(session, tasks[t].author)
       THEN Goto(t, [tasks[t] EXCEPT !.auth = TRUE, !.pc = "stop_prog"])
       ELSE Finish(t, "done", "none")
    /\ UNCHANGED <<session, muted, voice, posted, loop, shutdown,
                   ncmd, nreact, holder>>

\* if ctx.is_game_in_progress().await; when it is not, ctx.shard.shutdown()
\* follows with no .await in between
StopIsGameInProgress(t) ==
    /\ Free
    /\ Running
    /\ tasks[t].pc = "stop_prog"
    /\ IF is_game_in_progress(session)
       THEN /\ Goto(t, [tasks[t] EXCEPT !.pc = "stop_end"])
            /\ UNCHANGED shutdown
       ELSE /\ Finish(t, "done", "none")
            /\ shutdown' = TRUE
    /\ UNCHANGED <<session, muted, voice, posted, loop, ncmd, nreact, holder>>

\* ctx.end_game().await?; ctx.shard.shutdown() follows an Ok with no .await
\* in between
StopEndGame(t) ==
    /\ Free
    /\ Running
    /\ tasks[t].pc = "stop_end"
    /\ LET r == end_game(session, muted)
       IN  /\ session' = r.session
           /\ muted' = r.muted
           /\ shutdown' = (shutdown \/ r.ok)
           /\ Finish(t, IF r.ok THEN "done" ELSE "failed", "none")
    /\ UNCHANGED <<voice, posted, loop, ncmd, nreact, holder>>

---------------------------------------------------------------------------
(* Specification *)

NewTask(t) ==
    \/ NewCreateMessage(t)
    \/ NewStartGame(t)
    \/ NewSleep(t)
    \/ NewMutePlayers(t)
    \/ NewJoinReactions(t)

EndTask(t) ==
    \/ EndIsInControl(t)
    \/ EndEndGame(t)

DeadTask(t) ==
    \/ DeadIsInControl(t)
    \/ DeadReply(t)
    \/ DeadMakeDead(t)
    \/ DeadSleep(t)
    \/ DeadDeleteReply(t)

StopTask(t) ==
    \/ StopIsInControl(t)
    \/ StopIsGameInProgress(t)
    \/ StopEndGame(t)

\* events of the stream that no arm of the loop acts on
Ambient ==
    \/ IgnoredMessageCreate
    \/ OwnReaction
    \/ OtherReactionRemove

\* reaction events of users
Reactions(maxr) ==
    /\ nreact < maxr
    /\ \E u \in Users \cup {current_user}, m \in 0..posted :
          \/ \E e \in Emojis : ReactionAdd(u, m, e)
          \/ ReactionRemove(u, m, EMER_EMOJI)

\* the steps of the reaction arms, run inline by the event loop
Handlers ==
    \/ AddIsReactingToControl
    \/ AddIsInControl
    \/ AddEmergencyMeeting
    \/ AddMakeDead
    \/ RemIsReactingToControl
    \/ RemIsInControl
    \/ RemMutePlayers

\* command messages
CommandEvents(kinds, maxc) ==
    /\ ncmd < maxc
    /\ \/ \E k \in kinds : \E a \in AuthorsOf(k) \cup Bots, arg \in ArgsOf(k) :
             MessageCreate(a, k, arg)
       \/ MessageCreateDeleteFails

Next ==
    \/ CommandEvents(Commands, MaxCmds)
    \/ Ambient
    \/ Reactions(MaxReacts)
    \/ Handlers
    \/ LoopExit
    \/ \E t \in Slots :
          \/ TaskReturn(t)
          \/ HttpFailure(t)
          \/ NewTask(t)
          \/ EndTask(t)
          \/ DeadTask(t)
          \/ StopTask(t)

Spec == Init /\ [][Next]_vars

NextMeeting ==
    \/ CommandEvents({"new", "end", "stop"}, MeetingCmds)
    \/ Ambient
    \/ \E u \in VoiceUsers : VoiceStateUpdate(u)
    \/ Reactions(MeetingReacts)
    \/ Handlers
    \/ LoopExit
    \/ \E t \in Slots :
          \/ TaskReturn(t)
          \/ HttpFailure(t)
          \/ NewTask(t)
          \/ EndTask(t)
          \/ StopTask(t)

SpecMeeting == Init /\ [][NextMeeting]_vars

---------------------------------------------------------------------------
(* Properties *)

\* the command task in slot t takes the step
TaskStep(t) == tasks'[t] # tasks[t]

\* the event loop takes the step
LoopStep == loop' # loop

\* C1: there is one session at most, and a "~new" handled while a session is
\* active does not start one: no step of a "~new" task changes the
\* initiator, control message, dead members or meeting flag of an active
\* session, and its start_game reports that nothing was started.
C1_NewLeavesActiveSession ==
    [][\A t \in Slots :
         (tasks[t].kind = "new" /\ TaskStep(t) /\ session.active)
         => /\ session' = session
            /\ tasks[t].pc = "new_start" => ~tasks'[t].started]_vars

\* two "~new" tasks past start_game, one session: the second did not start
C1_Witness ==
    \E t, u \in Slots :
       /\ t # u
       /\ tasks[t].kind = "new" /\ tasks[t].pc \in {"new_sleep", "new_mute"}
       /\ tasks[u].kind = "new" /\ tasks[u].pc \in {"new_sleep", "new_mute"}
       /\ tasks[t].started /\ ~tasks[u].started
       /\ session.active

\* C2: is_in_control(u) is true exactly when u initiated the active session
\* or is an owner, and every gated action (the emergency meeting, the mute
\* on removal, end_game of "~end" and "~stop", make_dead of "~dead")
\* changes the session or the muted set only when its actor is in control.
C2_GatedOnlyByController ==
    [][/\ (loop.pc \in {"add_auth", "rem_auth"} /\ LoopStep)
          => (loop'.pc \in {"add_emer", "rem_mute"}
              <=> \/ session.active /\ loop.user = session.initiator
                  \/ loop.user \in owners)
       /\ (/\ loop.pc \in {"add_emer", "rem_mute"} /\ LoopStep
           /\ <<session, muted>>' # <<session, muted>>)
          => is_in_control(session, loop.user)
       /\ \A t \in Slots :
            (/\ tasks[t].pc \in {"end_game", "stop_end", "dead_make"}
             /\ TaskStep(t)
             /\ <<session, muted>>' # <<session, muted>>)
            => is_in_control(session, tasks[t].author)]_vars

C4_EmergencyAddThenRemove ==
    [][/\ (/\ loop.pc = "add_emer" /\ LoopStep
           /\ session.active /\ loop.user = session.initiator)
          => /\ session'.meeting
             /\ voice \subseteq muted'
       /\ (/\ loop.pc = "rem_mute" /\ LoopStep
           /\ session.active /\ session.meeting
           /\ loop.user = session.initiator)
          => /\ ~session'.meeting
             /\ muted' = {}]_vars

\* C5: a dead reaction on the control message is handled for any user with
\* no is_in_control check and marks that user, and nobody else, dead; an
\* emergency reaction added or removed by a user who is not in control is
\* dropped and changes neither the session nor the muted set.
C5_DeadOpenEmergencyGated ==
    [][/\ (/\ loop.pc = "add_ctrl" /\ LoopStep
           /\ loop.emoji = DEAD_EMOJI
           /\ is_reacting_to_control(session, loop.msg))
          => loop' = [loop EXCEPT !.pc = "add_dead"]
       /\ (loop.pc = "add_dead" /\ LoopStep)
          => /\ muted' = muted
             /\ session' = IF session.active
                           THEN [session EXCEPT !.dead = @ \cup {loop.user}]
                           ELSE session
       /\ (/\ loop.pc \in {"add_auth", "rem_auth"} /\ LoopStep
           /\ ~is_in_control(session, loop.user))
          => /\ loop' = IdleLoop
             /\ UNCHANGED <<session, muted>>]_vars

\* B, not in control of A's session, is dead in it by B's own reaction
C5_Witness ==
    /\ session.active /\ session.initiator = "A"
    /\ session.dead = {"B"}
    /\ ~session.meeting
    /\ loop = IdleLoop

\* C6: "~dead" from a user who was not in control, answered while a session
\* is active, gets the no-permission reply when the reply is sent, and no
\* step of that task changes the session or the muted set.
C6_UnauthorisedDeadRefused ==
    [][\A t \in Slots :
         (/\ tasks[t].kind = "dead" /\ TaskStep(t)
          /\ \/ tasks[t].pc = "dead_check"
             \/ tasks[t].pc = "dead_bcast" /\ ~tasks[t].auth)
         => /\ UNCHANGED <<session, muted>>
            /\ tasks[t].pc = "dead_check"
               => tasks'[t].auth = is_in_control(session, tasks[t].author)
            /\ (tasks[t].pc = "dead_bcast" /\ session.active)
               => \/ tasks'[t].pc = "done" /\ tasks'[t].reply = "permission"
                  \/ tasks'[t].pc = "failed" /\ tasks'[t].reply = "none"]_vars

\* a "~dead" task has ended with the no-permission reply, the session intact
C6_Witness ==
    /\ session.active
    /\ \E t \in Slots : tasks[t].pc = "done" /\ tasks[t].reply = "permission"

\* C7: a "~stop" whose author passed is_in_control never ends without
\* having invoked the shutdown, whatever the session state and whatever
\* "~end" runs beside it; a "~stop" whose author did not pass changes
\* neither the session, the muted set nor the shutdown flag.
C7_AuthorisedStopShutsDown ==
    [][\A t \in Slots :
         (tasks[t].kind = "stop" /\ TaskStep(t) /\ tasks'[t].kind = "ended")
         => IF tasks[t].pc = "stop_check"
            THEN UNCHANGED <<session, muted, shutdown>>
            ELSE shutdown']_vars

\* C8: start_game of "~new" by a user, with no session active, makes that
\* user the initiator of a session bound to the control message the task
\* posted, nobody dead, no meeting; the argument "0" leads to the mute with
\* no sleep, "2" to a sleep of 2 seconds, no argument or an unparsable one
\* to a sleep of 5 seconds; the mute then covers the current voice members.
C8_NewBindsAndDelays ==
    [][\A t \in Slots :
         /\ (tasks[t].pc = "new_start" /\ TaskStep(t))
            => /\ ~session.active
                  => session' = [active |-> TRUE,
                                 initiator |-> tasks[t].author,
                                 ctrl |-> tasks[t].ctrl,
                                 dead |-> {}, meeting |-> FALSE]
               /\ tasks[t].arg = <<"0">>
                  => tasks'[t].pc = "new_mute" /\ tasks'[t].delay = 0
               /\ tasks[t].arg = <<"2">>
                  => tasks'[t].pc = "new_sleep" /\ tasks'[t].delay = 2
               /\ tasks[t].arg \in {NoArg, <<"x">>}
                  => tasks'[t].pc = "new_sleep" /\ tasks'[t].delay = 5
         /\ (tasks[t].pc = "new_sleep" /\ TaskStep(t))
            => tasks'[t].pc = "new_mute" /\ UNCHANGED <<session, muted>>
         /\ (tasks[t].pc = "new_mute" /\ TaskStep(t))
            => muted' = muted \cup voice]_vars

\* "~new 0" of A has started A's session and goes on to the mute, unslept,
\* with both voice users present
C8_Witness ==
    /\ session.active /\ session.initiator = "A" /\ session.ctrl = 1
    /\ voice = {"A", "B"} /\ muted = {}
    /\ \E t \in Slots :
          /\ tasks[t].kind = "new" /\ tasks[t].pc = "new_mute"
          /\ tasks[t].started /\ tasks[t].delay = 0

\* C9: when end_game of an authorised "~end" or "~stop" succeeds, with or
\* without a meeting, no session is left and nobody is muted; a reaction
\* received afterwards, while no session exists, is dropped by
\* is_reacting_to_control and mutes nobody.
C9_EndClearsAndStaysClear ==
    [][/\ \A t \in Slots :
            (/\ tasks[t].pc \in {"end_game", "stop_end"} /\ TaskStep(t)
             /\ tasks'[t].pc = "done")
            => session' = NoSession /\ muted' = {}
       /\ (loop.pc = "idle" /\ LoopStep) => muted' = muted
       /\ (/\ loop.pc \in {"add_ctrl", "rem_ctrl"} /\ LoopStep
           /\ ~session.active)
          => loop' = IdleLoop /\ muted' = muted /\ session' = session]_vars

\* the session of control message 1 is over, nobody is muted, and a second
\* reaction on that message is in hand
C9_Witness ==
    /\ ~session.active /\ muted = {} /\ posted = 1
    /\ loop.pc \in {"add_ctrl", "rem_ctrl"} /\ loop.msg = 1
    /\ nreact = 2
    /\ \A t \in Slots : tasks[t].kind # "new"

\* C10: while a session lasts its dead members only grow; make_dead adds its
\* user and keeps everyone marked before, so marking a dead user again
\* changes nothing and marks of different users are all kept; a session that
\* starts has no dead members.
C10_DeadMembersOnlyGrow ==
    [][/\ (session.active /\ session'.active)
          => /\ session'.ctrl = session.ctrl
             /\ session'.initiator = session.initiator
             /\ session.dead \subseteq session'.dead
       /\ (~session.active /\ session'.active) => session'.dead = {}
       /\ (loop.pc = "add_dead" /\ LoopStep /\ session.active)
          => /\ session'.dead = session.dead \cup {loop.user}
             /\ loop.user \in session.dead => session' = session
       /\ \A t \in Slots :
            (tasks[t].pc = "dead_make" /\ TaskStep(t) /\ session.active)
            => LET target == ParseMention(tasks[t].arg).target
               IN  /\ session'.dead = session.dead \cup {target}
                   /\ target \in session.dead => session' = session]_vars

\* two different users are dead in one session
C10_Witness ==
    /\ session.active
    /\ Cardinality(session.dead) = 2

\* no command task and no reaction handler is in progress
Quiescent ==
    /\ loop.pc = "idle"
    /\ \A t \in Slots : tasks[t].kind \in {"idle", "ended"}

\* C11: whenever a mute or unmute transition of a session is the last thing
\* in progress, the muted set agrees with it and with the meeting flag: the
\* emergency meeting leaves the flag set and the voice members muted, the
\* mute of "~new" leaves them muted, the removal of the emergency reaction
\* leaves the flag cleared and nobody muted; and at rest a session in a
\* meeting has its voice members muted.
C11_MuteAgreesWithMeeting ==
    [][/\ (Quiescent /\ session.active /\ session.meeting)
          => VoiceAtStart \subseteq muted
       /\ (loop.pc = "add_emer" /\ LoopStep /\ session.active /\ Quiescent')
          => session'.meeting /\ voice \subseteq muted'
       /\ \A t \in Slots :
            (tasks[t].pc = "new_mute" /\ TaskStep(t) /\ session.active)
            => voice \subseteq muted'
       /\ (loop.pc = "rem_mute" /\ LoopStep /\ session.active /\ Quiescent')
          => ~session'.meeting /\ muted' = {}]_vars

\* C12: muting is idempotent.  In every state, mute_players applied twice
\* with the same voice members gives the muted set and the session of one
\* application, and so does emergency_meeting in a session, neither with an
\* error; a mute step taken when the voice members are muted already (for
\* the emergency reaction: in a meeting already) changes neither the session
\* nor the muted set and ends well.
C12_MuteIdempotent ==
    [][/\ LET r1 == mute_players(session, muted, voice)
              r2 == mute_players(r1.session, r1.muted, voice)
          IN  r1.ok /\ r2 = r1
       /\ session.active
          => LET r1 == emergency_meeting(session, muted, voice)
                 r2 == emergency_meeting(r1.session, r1.muted, voice)
             IN  r1.ok /\ r2 = r1
       /\ (/\ loop.pc = "add_emer" /\ LoopStep
           /\ session.active /\ session.meeting /\ voice \subseteq muted)
          => loop' = IdleLoop /\ UNCHANGED <<session, muted>>
       /\ (loop.pc = "rem_mute" /\ LoopStep /\ voice \subseteq muted)
          => loop' = IdleLoop /\ UNCHANGED <<session, muted>>
       /\ \A t \in Slots :
            (tasks[t].pc = "new_mute" /\ TaskStep(t) /\ voice \subseteq muted)
            => tasks'[t].pc = "new_join" /\ UNCHANGED <<session, muted>>]_vars

\* a second emergency reaction of the controller is about to call the
\* meeting that is on already, everyone in voice being muted
C12_Witness ==
    /\ loop.pc = "add_emer" /\ is_in_control(session, loop.user)
    /\ session.active /\ session.meeting
    /\ voice \subseteq muted
    /\ nreact = 2

\* C13: a recognised command that does not take effect is answered in the
\* chat: a task that returns Ok from the is_in_control check of "~end" or
\* "~stop", from the reply of "~dead", or from a "~new" whose start_game found
\* a session already active, has produced a reply.
C13_NoSilentDrop ==
    [][\A t \in Slots :
         (/\ TaskStep(t) /\ tasks'[t].pc = "done"
          /\ \/ tasks[t].pc \in {"end_check", "stop_check", "dead_bcast"}
             \/ tasks[t].kind = "new" /\ ~tasks[t].started)
         => tasks'[t].reply # "none"]_vars

\* C14: a session error is never fatal: the gateway event loop is never
\* ended by the error of a session operation, whatever command tasks run
\* between its checks and its emergency_meeting or mute_players call.
C14_EventLoopSurvives ==
    loop.pc # "crashed"

\* C15: a command task that waits (the delay before the mute of "~new", the
\* 5 seconds before the confirmation of "~dead" is deleted) does not hold the
\* session lock: during the wait the event loop can take in a reaction and
\* run every step of its handlers, and every other command task can take its
\* next step, those that read or change the session included.
C15_WaitHoldsNoLock ==
    \A t \in Slots :
       tasks[t].pc \in {"new_sleep", "dead_sleep"}
       => /\ holder # t
          /\ (loop.pc = "idle" /\ nreact < MaxReacts)
             => ENABLED Reactions(MaxReacts)
          /\ loop.pc \notin {"idle", "stopped", "crashed"} => ENABLED Handlers
          /\ \A u \in Slots \ {t} :
                (Running /\ tasks[u].kind \in Commands)
                => ENABLED (NewTask(u) \/ EndTask(u) \/ DeadTask(u)
                            \/ StopTask(u))

\* while a "~new" task sleeps, the event loop is about to mark a user dead
\* and another task is about to end the game
C15_Witness ==
    \E t, u \in Slots :
       /\ tasks[t].pc = "new_sleep" /\ tasks[t].started
       /\ tasks[u].pc = "end_game"
       /\ loop.pc = "add_dead"
       /\ session.active

\* C16: with no session, "~dead" of any author, an owner included, ends
\* without failure of the handler, answers with the no-session message when
\* the reply is sent, and changes neither the session nor the muted set.
C16_DeadWithoutSession ==
    [][\A t \in Slots :
         (/\ tasks[t].kind = "dead" /\ tasks[t].pc = "dead_bcast"
          /\ TaskStep(t) /\ ~session.active)
         => /\ \/ tasks'[t].pc = "done" /\ tasks'[t].reply = "nogame"
               \/ tasks'[t].pc = "failed" /\ tasks'[t].reply = "none"
            /\ UNCHANGED <<session, muted>>]_vars

\* C17: when the session was ended while a "~new" task was in its delay, the
\* mute that follows the delay is not applied: the step after the delay
\* finds no session, mutes nobody and leaves no session behind.
C17_NoMuteAfterEnd ==
    [][\A t \in Slots :
         (/\ tasks[t].pc = "new_mute" /\ tasks[t].delay > 0
          /\ TaskStep(t) /\ ~session.active)
         => muted' = muted /\ ~session'.active]_vars

\* C18: the removal of the emergency reaction by a controller, on the
\* control message of a session that is in no meeting, is no error and
\* leaves the session in no meeting and nobody muted.
C18_RemovalWithoutMeeting ==
    [][(/\ loop.pc = "rem_mute" /\ LoopStep
        /\ session.active /\ ~session.meeting
        /\ loop.msg = session.ctrl
        /\ is_in_control(session, loop.user))
       => /\ loop' = IdleLoop
          /\ ~session'.meeting
          /\ muted' = {}]_vars

\* C19: when create_message of "~new" fails, the task ends there: no
\* session is created, nobody is muted and the task that attaches the
\* reactions is never spawned.  start_game is reached only with the control
\* message that was posted, so an active session is always bound to a
\* posted control message.
C19_NoSessionWithoutControlMessage ==
    [][/\ session.active => session.ctrl \in 1..posted
       /\ \A t \in Slots :
            /\ tasks[t].pc = "new_start" => tasks[t].ctrl \in 1..posted
            /\ (tasks[t].pc = "new_post" /\ TaskStep(t) /\ posted' = posted)
               => /\ tasks'[t].kind = "ended" /\ tasks'[t].pc = "failed"
                  /\ UNCHANGED <<session, muted>>]_vars

\* the only "~new" so far failed to post its control message: no session,
\* nobody muted
C19_Witness ==
    /\ ~session.active /\ muted = {} /\ posted = 0
    /\ \E t \in Slots :
          tasks[t].pc = "failed" /\ tasks[t].reply = "unposted"

\* C20: a message of a bot account never starts a command, and a reaction
\* added or removed by the bot's own identity, on the control message or
\* elsewhere, never reaches a handler: no command task has a bot as author,
\* no session has one as initiator or dead member, no handler of the event
\* loop runs for current_user, and the event loop leaves its idle state only
\* for a reaction of another user (or for good, after the shutdown).
C20_BotEventsIgnored ==
    [][/\ \A t \in Slots : tasks[t].author \notin Bots
       /\ session.initiator \notin Bots
       /\ current_user \notin session.dead \cup muted
       /\ loop.user # current_user
       /\ (loop.pc = "idle" /\ LoopStep)
          => /\ loop'.user \in Users \/ loop'.pc = "stopped"
             /\ UNCHANGED <<session, muted, tasks>>]_vars

\* the bot is attaching its two reactions to the control message of the
\* session it just started; nobody is dead, no meeting is on
C20_Witness ==
    /\ session.active /\ session.dead = {} /\ ~session.meeting
    /\ loop.pc = "idle"
    /\ \E t \in Slots :
          /\ tasks[t].kind = "new" /\ tasks[t].pc = "new_join"
          /\ tasks[t].started
          /\ session.ctrl = posted

====
